---- MODULE Spec2Model ----
(***************************************************************************)
(* Data plane of the l-Othello classifier (Othello/data_plane_othello.h).  *)
(*                                                                         *)
(* A uint64_t is modelled as the set of the positions of its 1-bits        *)
(* (a subset of 0..63), so that every mask, shift and xor of the source is *)
(* computed bit-exactly at its real width.  Threads are modelled at the    *)
(* granularity of single loads and stores of lock[] bytes and mem[] words. *)
(***************************************************************************)
EXTENDS Integers, Sequences, FiniteSets, TLC

VARIABLES
  cfg,    \* template parameters L, CL, table sizes ma, mb, and what a shift by >= 64 yields in this build
  mem,    \* vector<uint64_t> mem: word index -> set of 1-bit positions
  lock,   \* vector<uint8_t> lock: counter index -> 0..255 (only the entries some slot can touch)
  th,     \* threads: thread id -> program position and locals ("w" is the control-plane
          \* thread that calls the repair primitives, the others call lookUp)
  fault,  \* TRUE once a wild store has killed the process
  hist    \* history of calls (ghost state the claims are stated over)

vars == <<cfg, mem, lock, th, fault, hist>>

----------------------------------------------------------------------------
(* 64-bit words as bit sets *)

WordBits == 64
LockSize == 8192
CounterMod == 256

W == 0 .. (WordBits - 1)

\* bit set of a small natural number (n < 2^16)
BitsOf(n) == {i \in 0..15 : (n \div (2^i)) % 2 = 1}

\* the number a bit set stands for (bits below 31 only)
RECURSIVE NumOf(_)
NumOf(x) == IF x = {} THEN 0
            ELSE LET b == CHOOSE b \in x : TRUE IN 2^b + NumOf(x \ {b})

Not(x) == W \ x
And(x, y) == x \cap y
Or(x, y) == x \cup y
Xor(x, y) == (x \ y) \cup (y \ x)

\* x << n and x >> n on uint64_t.  A count >= 64 is undefined behaviour: the
\* build either reduces the count modulo 64 (x86 shl/shr with a register
\* count) or yields 0 (constant folding, shifters that saturate).
ShL(x, n) ==
  IF n >= WordBits
    THEN IF cfg.shift = "wrap" THEN {b + (n % WordBits) : b \in x} \cap W ELSE {}
    ELSE {b + n : b \in x} \cap W

ShR(x, n) ==
  IF n >= WordBits
    THEN IF cfg.shift = "wrap" THEN {b - (n % WordBits) : b \in x} \cap W ELSE {}
    ELSE {b - n : b \in x} \cap W

\* conversion of a uint64_t argument to a uint32_t parameter
U32(x) == x \cap (0..31)

----------------------------------------------------------------------------
(* template parameters and builtin values *)

L == cfg.L
CL == cfg.CL
ma == cfg.ma
mb == cfg.mb

VCL == L + CL
VCMASK == Not(ShL(W, VCL))
CMASK == Not(ShL(W, CL))
VMASK == Not(ShL(W, L))

Slots == 0 .. (ma + mb - 1)

\* lock[index & 8191]
LockOf(index) == index % LockSize

----------------------------------------------------------------------------
(* bit-packed field store: memGet / memValueGet *)

\* char left = char(offset + width - 64), a signed char
LeftOf(offset, width) == offset + width - WordBits

memGetStart(index) == (index * VCL) \div WordBits
memGetOffset(index) == (index * VCL) % WordBits
memGetLeft(index) ==
  LET left == LeftOf(memGetOffset(index), VCL)
  IN  IF left < 0 THEN 0 ELSE left

\* memGet on the two words it loads: w0 = mem[start], w1 = mem[start + 1]
memGetW(w0, w1, index) ==
  LET offset == memGetOffset(index)
      left   == memGetLeft(index)
      mask   == Not(ShL(W, VCL - left))
      result == And(ShR(w0, offset), mask)
  IN  IF left > 0
        THEN Or(result, ShL(And(w1, Not(ShL(W, left))), VCL - left))
        ELSE result

memGet(m, index) ==
  memGetW(m[memGetStart(index)],
          IF memGetLeft(index) > 0 THEN m[memGetStart(index) + 1] ELSE {},
          index)

memValueGetStart(index) == (index * VCL + CL) \div WordBits
memValueGetOffset(index) == (index * VCL + CL) % WordBits
memValueGetLeft(index) ==
  LET left == LeftOf(memValueGetOffset(index), L)
  IN  IF left < 0 THEN 0 ELSE left

memValueGet(m, index) ==
  IF L = 0 THEN {}
  ELSE
    LET start  == memValueGetStart(index)
        offset == memValueGetOffset(index)
        left   == memValueGetLeft(index)
        mask   == Not(ShL(W, L - left))
        result == And(ShR(m[start], offset), mask)
    IN  IF left > 0
          THEN Or(result, ShL(And(m[start + 1], Not(ShL(W, left))), L - left))
          ELSE result

----------------------------------------------------------------------------
(* bit-packed field store: the stores of memSet / memValueSet, one operator *)
(* per statement that writes mem                                            *)

memSetStart(index) == (index * VCL) \div WordBits
memSetOffset(index) == (index * VCL) % WordBits
memSetLeft(index) == LeftOf(memSetOffset(index), VCL)

\* mem[start] &= ~(VCMASK << offset)
memSetW0And(word, index) == And(word, Not(ShL(VCMASK, memSetOffset(index))))
\* mem[start] |= (value & VCMASK) << offset
memSetW0Or(word, index, value) ==
  Or(word, ShL(And(value, VCMASK), memSetOffset(index)))
\* mem[start + 1] &= uint64_t(-1) << left
memSetW1And(word, index) == And(word, ShL(W, memSetLeft(index)))
\* mem[start + 1] |= (value & VCMASK) >> (VCL - left)
memSetW1Or(word, index, value) ==
  Or(word, ShR(And(value, VCMASK), VCL - memSetLeft(index)))

\* a mutant of memValueSetStart: the word is found from the index reduced as
\* for the version counter
memValueSetStart_Aliased(index) == (LockOf(index) * VCL + CL) \div WordBits

memValueSetStart(index) == (index * VCL + CL) \div WordBits
memValueSetOffset(index) == (index * VCL + CL) % WordBits
memValueSetLeft(index) == LeftOf(memValueSetOffset(index), L)

\* a mutant of memValueSetW0And: the mask of the whole slot, VCMASK, in place
\* of the mask of the value sub-field
memValueSetW0And_WholeSlot(word, index) ==
  And(word, Not(ShL(VCMASK, memValueSetOffset(index))))

\* mem[start] &= ~(VMASK << offset)
memValueSetW0And(word, index) ==
  And(word, Not(ShL(VMASK, memValueSetOffset(index))))
\* mem[start] |= (value & VMASK) << offset
memValueSetW0Or(word, index, value) ==
  Or(word, ShL(And(value, VMASK), memValueSetOffset(index)))
\* mem[start + 1] &= uint64_t(-1) << left
memValueSetW1And(word, index) == And(word, ShL(W, memValueSetLeft(index)))
\* mem[start + 1] |= (value & VMASK) >> (L - left)
memValueSetW1Or(word, index, value) ==
  Or(word, ShR(And(value, VMASK), L - memValueSetLeft(index)))

----------------------------------------------------------------------------
(* threads *)

Writer == "w"
Threads == DOMAIN th
Readers == Threads \ {Writer}

\* a thread outside every call
Fresh ==
  [pc |-> "idle", op |-> "none",
   kind |-> "-", index |-> 0, value |-> {}, tmp |-> 0, stage |-> "-",
   todo |-> <<>>, x |-> {},
   ha |-> 0, hb |-> 0, va1 |-> 0, vb1 |-> 0, va2 |-> 0, raw |-> {},
   aa |-> {}, bb |-> {}, v |-> {}, ret |-> "none", variant |-> "-",
   dA |-> FALSE, dB |-> FALSE, snap |-> <<>>]

Quiescent == \A t \in Threads : th[t].pc \in {"idle", "done"}

\* calls are issued one after the other when the configuration is sequential;
\* otherwise each thread makes at most cfg.maxops calls (no limit when 0)
MayCall(t) ==
  /\ ~fault
  /\ th[t].pc \in {"idle", "done"}
  /\ cfg.seq => (Quiescent /\ hist.n < cfg.maxops)
  /\ ~cfg.seq => (cfg.maxops = 0 \/ hist.w[t] < cfg.maxops)

\* ghost: the call, and the table as it stood when the call was made
Logged(t, call) ==
  [hist EXCEPT
     !.n     = IF cfg.seq THEN @ + 1 ELSE @,
     !.w     = IF cfg.seq \/ cfg.maxops = 0 THEN @ ELSE [@ EXCEPT ![t] = @ + 1],
     !.call  = IF cfg.seq THEN call ELSE @,
     !.pre   = IF cfg.seq THEN mem ELSE @,
     !.prelock = IF cfg.seq THEN lock ELSE @,
     !.trace = IF cfg.trace THEN Append(@, call) ELSE @]

----------------------------------------------------------------------------
(* repair primitives and direct accessor calls: the calls *)

\* void memSet(uint32_t index, uint64_t value)
CallMemSet(t, index, value) ==
  /\ MayCall(t)
  /\ th' = [th EXCEPT ![t] =
              IF VCL = 0 THEN Fresh
              ELSE [Fresh EXCEPT !.pc = "inc1_ld", !.op = "memSet", !.kind = "S",
                                 !.index = index, !.value = value]]
  /\ hist' = Logged(t, <<"memSet", index, value>>)
  /\ UNCHANGED <<cfg, mem, lock, fault>>

\* void memValueSet(uint32_t index, uint64_t value)
CallMemValueSet(t, index, value) ==
  /\ MayCall(t)
  /\ th' = [th EXCEPT ![t] =
              IF L = 0 THEN Fresh
              ELSE [Fresh EXCEPT !.pc = "inc1_ld", !.op = "memValueSet", !.kind = "V",
                                 !.index = index, !.value = value]]
  /\ hist' = Logged(t, <<"memValueSet", index, value>>)
  /\ UNCHANGED <<cfg, mem, lock, fault>>

\* a mutant of CallFillSingle: the slot index first, the value second
CallFillSingle_SlotFirst(t, arg1, arg2) ==
  /\ MayCall(t)
  /\ th' = [th EXCEPT ![t] =
              [Fresh EXCEPT !.pc = "inc1_ld", !.op = "fillSingle", !.kind = "V",
                            !.index = NumOf(arg1), !.value = BitsOf(arg2)]]
  /\ hist' = Logged(t, <<"fillSingle", arg1, arg2>>)
  /\ UNCHANGED <<cfg, mem, lock, fault>>

\* void fillSingle(uint32_t valueToFill, uint32_t nodeToFill)
\*   { memValueSet(nodeToFill, valueToFill); }
\* arg1 and arg2 are the call's first and second argument
CallFillSingle(t, arg1, arg2) ==
  LET valueToFill == U32(arg1)
      nodeToFill  == arg2
  IN
  /\ MayCall(t)
  /\ th' = [th EXCEPT ![t] =
              IF L = 0 THEN Fresh
              ELSE [Fresh EXCEPT !.pc = "inc1_ld", !.op = "fillSingle", !.kind = "V",
                                 !.index = nodeToFill, !.value = valueToFill]]
  /\ hist' = Logged(t, <<"fillSingle", arg1, arg2>>)
  /\ UNCHANGED <<cfg, mem, lock, fault>>

\* void fixSingle(uint32_t nodeToFix, uint64_t x)
CallFixSingle(t, nodeToFix, x) ==
  /\ MayCall(t)
  /\ th' = [th EXCEPT ![t] =
              [Fresh EXCEPT !.pc = "fix_get", !.op = "fixSingle",
                            !.index = nodeToFix, !.x = x]]
  /\ hist' = Logged(t, <<"fixSingle", nodeToFix, x>>)
  /\ UNCHANGED <<cfg, mem, lock, fault>>

\* void fixHalfTreeByConnectedComponent(vector<uint32_t> indices, uint32_t xorTemplate)
\*   { for (uint32_t index: indices) fixSingle(index, xorTemplate); }
CallFixHalfTree(t, indices, arg2) ==
  LET xorTemplate == U32(arg2)
  IN
  /\ MayCall(t)
  /\ th' = [th EXCEPT ![t] =
              IF indices = <<>> THEN Fresh
              ELSE [Fresh EXCEPT !.pc = "fix_get", !.op = "fixHalfTree",
                                 !.index = Head(indices), !.todo = Tail(indices),
                                 !.x = xorTemplate]]
  /\ hist' = Logged(t, <<"fixHalfTree", indices, arg2>>)
  /\ UNCHANGED <<cfg, mem, lock, fault>>

\* fixSingle: uint64_t valueToFill = x ^ memValueGet(nodeToFix); then memValueSet
FixGet(t) ==
  /\ ~fault
  /\ th[t].pc = "fix_get"
  /\ th' = [th EXCEPT ![t].pc = "inc1_ld", ![t].kind = "V",
                      ![t].value = Xor(th[t].x, memValueGet(mem, th[t].index))]
  /\ UNCHANGED <<cfg, mem, lock, fault, hist>>

----------------------------------------------------------------------------
(* memSet / memValueSet, statement by statement *)

SetStart(r) == IF r.kind = "S" THEN memSetStart(r.index) ELSE memValueSetStart(r.index)
SetLeft(r) == IF r.kind = "S" THEN memSetLeft(r.index) ELSE memValueSetLeft(r.index)

\* the reader's window on a version counter: from its first read of the counter
\* to its second read of it (ghost)
WindowA(r) == r.op = "lookUp" /\ r.pc \in {"vb1", "aa0", "aa1", "bb0", "bb1", "va2"}
WindowB(r) == r.op = "lookUp" /\ r.pc \in {"aa0", "aa1", "bb0", "bb1", "va2", "vb2"}

\* ghost: a store to counter c by thread t falls into the open windows of the others
Dirtied(t, c) ==
  [u \in Threads |->
     IF u = t THEN th[u]
     ELSE [th[u] EXCEPT
             !.dA = @ \/ (WindowA(th[u]) /\ LockOf(th[u].ha) = c),
             !.dB = @ \/ (WindowB(th[u]) /\ LockOf(th[u].hb) = c)]]

\* lookUp(k, v) returns success; in the value-returning overload:
\* if (success) return result; throw runtime_error("No matched key! ");
Return(r, success) ==
  [r EXCEPT !.pc = IF r.variant = "value" /\ success # "true" THEN "thrown" ELSE "done",
            !.ret = success,
            !.kind = "-", !.index = 0, !.value = {}, !.tmp = 0, !.stage = "-",
            !.va1 = 0, !.vb1 = 0, !.va2 = 0, !.aa = {}, !.bb = {}, !.snap = <<>>]

\* where a thread goes when its memSet / memValueSet returns
AfterSet(r) ==
  CASE r.op = "fixHalfTree" /\ r.todo # <<>> ->
         [r EXCEPT !.pc = "fix_get", !.index = Head(r.todo), !.todo = Tail(r.todo),
                   !.kind = "-", !.value = {}, !.tmp = 0]
    [] r.op = "lookUp" /\ r.stage = "A" ->
         [r EXCEPT !.pc = "inc1_ld", !.kind = "S", !.index = r.hb, !.value = r.bb,
                   !.tmp = 0, !.stage = "B"]
    [] r.op = "lookUp" /\ r.stage = "B" -> Return(r, "true")
    [] OTHER -> Fresh

\* lock[index & 8191]++ : the load
LockLoad(t) ==
  /\ ~fault
  /\ th[t].pc \in {"inc1_ld", "inc2_ld"}
  /\ th' = [th EXCEPT ![t].tmp = lock[LockOf(th[t].index)],
                      ![t].pc = IF th[t].pc = "inc1_ld" THEN "inc1_st" ELSE "inc2_st"]
  /\ UNCHANGED <<cfg, mem, lock, fault, hist>>

\* a mutant of LockStore: the increment after the stores to mem is left out
LockStore_NoSecond(t) ==
  LET c == LockOf(th[t].index)
  IN
  /\ ~fault
  /\ th[t].pc \in {"inc1_st", "inc2_st"}
  /\ lock' = [lock EXCEPT ![c] = IF th[t].pc = "inc1_st"
                                   THEN (th[t].tmp + 1) % CounterMod ELSE @]
  /\ th' = [th EXCEPT ![t] = IF th[t].pc = "inc1_st"
                               THEN [th[t] EXCEPT !.pc = "w0_and", !.tmp = 0]
                               ELSE AfterSet(th[t])]
  /\ UNCHANGED <<cfg, mem, fault, hist>>

\* lock[index & 8191]++ : the store (uint8_t arithmetic)
LockStore(t) ==
  LET c == LockOf(th[t].index)
      d == Dirtied(t, c)
  IN
  /\ ~fault
  /\ th[t].pc \in {"inc1_st", "inc2_st"}
  /\ lock' = [lock EXCEPT ![c] = (th[t].tmp + 1) % CounterMod]
  /\ th' = [d EXCEPT ![t] = IF th[t].pc = "inc1_st"
                              THEN [th[t] EXCEPT !.pc = "w0_and", !.tmp = 0]
                              ELSE AfterSet(th[t])]
  /\ UNCHANGED <<cfg, mem, fault, hist>>

\* ghost: the slot's content is complete once the last store of the call is done
FullyWritten(t, m) ==
  IF ~cfg.written \/ th[t].index \notin Slots THEN hist
  ELSE [hist EXCEPT !.written[th[t].index] = @ \cup {memGet(m, th[t].index)}]

\* a store to mem[start] or mem[start + 1] beyond the end of the vector
StoreOutside(t, word, next) ==
  /\ word \notin DOMAIN mem
  /\ \/ /\ fault' = TRUE
        /\ UNCHANGED <<th, hist>>
     \/ /\ th' = [th EXCEPT ![t].pc = next]
        /\ hist' = [hist EXCEPT !.oob = @ \cup {th[t].index}]
        /\ UNCHANGED fault
  /\ UNCHANGED <<cfg, mem, lock>>

\* mem[start] &= mask
StoreW0And(t) ==
  LET start == SetStart(th[t])
  IN
  /\ ~fault
  /\ th[t].pc = "w0_and"
  /\ \/ /\ start \in DOMAIN mem
        /\ mem' = [mem EXCEPT ![start] =
                     IF th[t].kind = "S" THEN memSetW0And(@, th[t].index)
                                         ELSE memValueSetW0And(@, th[t].index)]
        /\ th' = [th EXCEPT ![t].pc = "w0_or"]
        /\ UNCHANGED <<cfg, lock, fault, hist>>
     \/ StoreOutside(t, start, "w0_or")

\* mem[start] |= v << offset
StoreW0Or(t) ==
  LET start == SetStart(th[t])
      next  == IF SetLeft(th[t]) > 0 THEN "w1_and" ELSE "inc2_ld"
      m2    == [mem EXCEPT ![start] =
                     IF th[t].kind = "S" THEN memSetW0Or(@, th[t].index, th[t].value)
                                         ELSE memValueSetW0Or(@, th[t].index, th[t].value)]
  IN
  /\ ~fault
  /\ th[t].pc = "w0_or"
  /\ \/ /\ start \in DOMAIN mem
        /\ mem' = m2
        /\ th' = [th EXCEPT ![t].pc = next]
        /\ hist' = IF next = "inc2_ld" THEN FullyWritten(t, m2) ELSE hist
        /\ UNCHANGED <<cfg, lock, fault>>
     \/ StoreOutside(t, start, next)

\* if (left > 0) mem[start + 1] &= uint64_t(-1) << left
StoreW1And(t) ==
  LET start == SetStart(th[t])
  IN
  /\ ~fault
  /\ th[t].pc = "w1_and"
  /\ \/ /\ start + 1 \in DOMAIN mem
        /\ mem' = [mem EXCEPT ![start + 1] =
                     IF th[t].kind = "S" THEN memSetW1And(@, th[t].index)
                                         ELSE memValueSetW1And(@, th[t].index)]
        /\ th' = [th EXCEPT ![t].pc = "w1_or"]
        /\ UNCHANGED <<cfg, lock, fault, hist>>
     \/ StoreOutside(t, start + 1, "w1_or")

\* if (left > 0) mem[start + 1] |= v >> (width - left)
StoreW1Or(t) ==
  LET start == SetStart(th[t])
      m2    == [mem EXCEPT ![start + 1] =
                     IF th[t].kind = "S" THEN memSetW1Or(@, th[t].index, th[t].value)
                                         ELSE memValueSetW1Or(@, th[t].index, th[t].value)]
  IN
  /\ ~fault
  /\ th[t].pc = "w1_or"
  /\ \/ /\ start + 1 \in DOMAIN mem
        /\ mem' = m2
        /\ th' = [th EXCEPT ![t].pc = "inc2_ld"]
        /\ hist' = FullyWritten(t, m2)
        /\ UNCHANGED <<cfg, lock, fault>>
     \/ StoreOutside(t, start + 1, "inc2_ld")

----------------------------------------------------------------------------
(* lookUp(const K &k, V &v), statement by statement *)

\* getIndices(k, ha, hb): a key is identified with the pair of slots it hashes
\* to, ha in array A and hb in array B
Keys == {<<a, b>> \in Slots \X Slots : a < ma /\ b >= ma}

\* bool lookUp(const K &k, V &v)
CallLookUp(t, k) ==
  /\ MayCall(t)
  /\ th' = [th EXCEPT ![t] =
              [Fresh EXCEPT !.pc = "va1", !.op = "lookUp", !.variant = "bool",
                            !.ha = k[1], !.hb = k[2]]]
  /\ hist' = Logged(t, <<"lookUp", k[1], k[2]>>)
  /\ UNCHANGED <<cfg, mem, lock, fault>>

\* V lookUp(const K &k) { V result; bool success = lookUp(k, result); ... }
CallLookUpValue(t, k) ==
  /\ MayCall(t)
  /\ th' = [th EXCEPT ![t] =
              [Fresh EXCEPT !.pc = "va1", !.op = "lookUp", !.variant = "value",
                            !.ha = k[1], !.hb = k[2]]]
  /\ hist' = Logged(t, <<"lookUpValue", k[1], k[2]>>)
  /\ UNCHANGED <<cfg, mem, lock, fault>>

\* a mutant of Retry: give up and report failure instead of looping
Retry_ReturnFalse(r) == Return(r, "false")

\* continue: the next iteration of while (true)
Retry(r) ==
  [r EXCEPT !.pc = "va1", !.va1 = 0, !.vb1 = 0, !.va2 = 0, !.raw = {},
            !.aa = {}, !.bb = {}, !.dA = FALSE, !.dB = FALSE, !.snap = <<>>]

\* a mutant of Busy: the first counter check is left out and the iteration
\* goes on to read the slots
Busy_Ignored(r) == [r EXCEPT !.vb1 = lock[LockOf(r.hb)], !.dB = TRUE, !.pc = "aa0"]

\* if (va1 % 2 == 1 || vb1 % 2 == 1) continue;
Busy(r) == Retry(r)

\* uint8_t va1 = lock[ha & 8191]
ReadVa1(t) ==
  /\ ~fault
  /\ th[t].pc = "va1"
  /\ th' = [th EXCEPT ![t].va1 = lock[LockOf(th[t].ha)],
                      ![t].dA = (lock[LockOf(th[t].ha)] % 2 = 1),
                      ![t].pc = "vb1"]
  /\ UNCHANGED <<cfg, mem, lock, fault, hist>>

\* vb1 = lock[hb & 8191]; if (va1 % 2 == 1 || vb1 % 2 == 1) continue;
ReadVb1(t) ==
  LET vb1 == lock[LockOf(th[t].hb)]
  IN
  /\ ~fault
  /\ th[t].pc = "vb1"
  /\ th' = [th EXCEPT ![t] =
              IF th[t].va1 % 2 = 1 \/ vb1 % 2 = 1
                THEN Busy(th[t])
                ELSE [th[t] EXCEPT !.vb1 = vb1, !.dB = FALSE, !.pc = "aa0"]]
  /\ UNCHANGED <<cfg, mem, lock, fault, hist>>

\* uint64_t aa = memGet(ha): the load of mem[start], and of mem[start + 1]
\* when the slot continues there
ReadAA(t) ==
  LET start == memGetStart(th[t].ha)
      two   == memGetLeft(th[t].ha) > 0
  IN
  /\ ~fault
  /\ th[t].pc \in {"aa0", "aa1"}
  /\ th' = [th EXCEPT ![t] =
              IF th[t].pc = "aa0" /\ two
                THEN [th[t] EXCEPT !.raw = mem[start], !.pc = "aa1"]
              ELSE IF th[t].pc = "aa0"
                THEN [th[t] EXCEPT !.aa = memGetW(mem[start], {}, th[t].ha), !.pc = "bb0"]
              ELSE [th[t] EXCEPT !.aa = memGetW(th[t].raw, mem[start + 1], th[t].ha),
                                 !.raw = {}, !.pc = "bb0"]]
  /\ UNCHANGED <<cfg, mem, lock, fault, hist>>

\* ghost, kept where the configuration asks for it: what the two slots of the
\* key hold at the instant the last load of memGet(hb) is made
Snapshot(t) ==
  IF "snap" \in DOMAIN cfg
    THEN <<memGet(mem, th[t].ha), memGet(mem, th[t].hb)>>
    ELSE <<>>

\* uint64_t bb = memGet(hb)
ReadBB(t) ==
  LET start == memGetStart(th[t].hb)
      two   == memGetLeft(th[t].hb) > 0
  IN
  /\ ~fault
  /\ th[t].pc \in {"bb0", "bb1"}
  /\ th' = [th EXCEPT ![t] =
              IF th[t].pc = "bb0" /\ two
                THEN [th[t] EXCEPT !.raw = mem[start], !.pc = "bb1"]
              ELSE IF th[t].pc = "bb0"
                THEN [th[t] EXCEPT !.bb = memGetW(mem[start], {}, th[t].hb), !.pc = "va2",
                                   !.snap = Snapshot(t)]
              ELSE [th[t] EXCEPT !.bb = memGetW(th[t].raw, mem[start + 1], th[t].hb),
                                 !.raw = {}, !.pc = "va2", !.snap = Snapshot(t)]]
  /\ UNCHANGED <<cfg, mem, lock, fault, hist>>

\* uint8_t va2 = lock[ha & 8191]
\* When va2 differs from va1 the iteration can only end in `continue', whatever
\* vb2 turns out to be: the locals, dead from here on, are then cleared and
\* only the inequality is kept (va1 = 0, va2 = 1).
ReadVa2(t) ==
  LET va2 == lock[LockOf(th[t].ha)]
  IN
  /\ ~fault
  /\ th[t].pc = "va2"
  /\ th' = [th EXCEPT ![t] =
              IF va2 = th[t].va1
                THEN [th[t] EXCEPT !.va2 = va2, !.pc = "vb2"]
                ELSE [th[t] EXCEPT !.va1 = 0, !.va2 = 1, !.vb1 = 0, !.aa = {}, !.bb = {},
                                   !.snap = <<>>, !.pc = "vb2"]]
  /\ UNCHANGED <<cfg, mem, lock, fault, hist>>

\* a mutant of Accepts: the comparison the other way round
Accepts_Inverted(va1, va2, vb1, vb2) == va1 # va2 \/ vb1 # vb2

\* a mutant of Accepts: only the counter of slot hb is compared
Accepts_OnlyB(va1, va2, vb1, vb2) == ~(vb1 # vb2)

\* whether the iteration is accepted: !(va1 != va2 || vb1 != vb2)
Accepts(va1, va2, vb1, vb2) == ~(va1 # va2 \/ vb1 # vb2)

\* the value handed to the caller: v = (aa ^ bb) >> CL
LookUpValue(aa, bb) == ShR(Xor(aa, bb), CL)

\* vb2 = lock[hb & 8191]; if (va1 != va2 || vb1 != vb2) continue;
\* v = (aa ^ bb) >> CL; if (CL == 0) return true;
ReadVb2(t) ==
  LET vb2 == lock[LockOf(th[t].hb)]
      r   == th[t]
  IN
  /\ ~fault
  /\ r.pc = "vb2"
  /\ th' = [th EXCEPT ![t] =
              IF ~Accepts(r.va1, r.va2, r.vb1, vb2)
                THEN Retry(r)
              ELSE IF CL = 0
                THEN Return([r EXCEPT !.v = LookUpValue(r.aa, r.bb)], "true")
              ELSE [r EXCEPT !.v = LookUpValue(r.aa, r.bb), !.pc = "wild",
                             !.va1 = 0, !.vb1 = 0, !.va2 = 0, !.snap = <<>>]]
  /\ UNCHANGED <<cfg, mem, lock, fault, hist>>

\* *(uint16_t *) aa += 1; *(uint16_t *) bb += 1;
\* The VALUES of aa and bb are used as addresses: two wild 16-bit read-modify-
\* writes.  Either one faults and ends the process, or both land outside the
\* table; the locals aa and bb keep their values either way.
\* Then memSet(ha, aa) begins.
WildIncrement(t) ==
  /\ ~fault
  /\ th[t].pc = "wild"
  /\ \/ /\ fault' = TRUE
        /\ UNCHANGED th
     \/ /\ th' = [th EXCEPT ![t].pc = "inc1_ld", ![t].kind = "S", ![t].stage = "A",
                            ![t].index = th[t].ha, ![t].value = th[t].aa]
        /\ UNCHANGED fault
  /\ UNCHANGED <<cfg, mem, lock, hist>>

----------------------------------------------------------------------------
(* the table after construction *)

\* number of 64-bit words of mem for ma + mb slots of VCL bits (the vector is
\* sized by the control plane that fullSync copies it from)
MemWords(c) == ((c.ma + c.mb) * (c.L + c.CL) + WordBits - 1) \div WordBits

\* every bit of every slot 1, the padding after the last slot 0
AllOnes(c) ==
  [w \in 0 .. (MemWords(c) - 1) |->
     {b \in W : WordBits * w + b < (c.ma + c.mb) * (c.L + c.CL)}]
AllZero(c) == [w \in 0 .. (MemWords(c) - 1) |-> {}]

\* the version counters some slot of the table maps to
LockIdx(c) == {s % LockSize : s \in 0 .. (c.ma + c.mb - 1)}

\* ghost state at construction
Hist0(ids, m) ==
  [n |-> 0, w |-> [t \in ids |-> 0], call |-> <<"none">>, pre |-> m,
   prelock |-> lock, trace |-> <<>>, oob |-> {},
   written |-> IF cfg.written THEN [s \in Slots |-> {memGet(m, s)}] ELSE <<>>]

Construct(c, m, counters, ids) ==
  /\ cfg = c
  /\ mem = m
  /\ lock = counters
  /\ th = [t \in ids |-> Fresh]
  /\ fault = FALSE
  /\ hist = Hist0(ids, m)

----------------------------------------------------------------------------
(* Spec: one thread, calls made one after the other *)

MaxOps == 2

\* L, CL, ma, mb: slots inside one word and ending on its boundary; slots that
\* straddle two words, with and without control bits; values wider than 32
\* bits; slots as wide as a word
Layouts ==
  { <<16, 0, 2, 2>>, <<20, 4, 2, 2>>, <<40, 0, 2, 2>>,
    <<64, 0, 1, 1>>, <<62, 2, 1, 1>> }

SeqConfigs ==
  { [L |-> y[1], CL |-> y[2], ma |-> y[3], mb |-> y[4], shift |-> sh,
     seq |-> TRUE, trace |-> FALSE, written |-> FALSE, maxops |-> MaxOps] :
       y \in Layouts, sh \in {"wrap", "zero"} }

\* the two outcomes of a shift by >= 64 differ only where VCL = 64
SeqBuilds == {c \in SeqConfigs : c.shift = "zero" \/ c.L + c.CL = WordBits}

\* arguments: a low bit; the top bit of the value field with another; bits
\* above bit 31 and a bit beyond the field
SeqValues == { {0}, {1, L - 1}, {0, 33, L} \cap W }

\* deltas of fixSingle and fixHalfTreeByConnectedComponent, inside [0, 2^L)
SeqDeltas == { {0, L - 1}, {1, 33} \cap (0 .. (L - 1)) }

\* index lists of fixHalfTreeByConnectedComponent
SeqLists ==
  {<<>>} \cup {<<s>> : s \in Slots}
         \cup {<<p[1], p[2]>> : p \in {q \in Slots \X Slots : q[1] # q[2]}}

Init ==
  \E c \in SeqBuilds :
    \E m \in {AllZero(c), AllOnes(c)} :
      Construct(c, m, [i \in LockIdx(c) |-> 0], {Writer})

DoMemSet == \E s \in Slots, v \in {{0, L}, {VCL - 1, VCL} \cap W} : CallMemSet(Writer, s, v)
DoMemValueSet == \E s \in Slots, v \in SeqValues : CallMemValueSet(Writer, s, v)
DoFillSingle == \E s \in Slots, v \in SeqValues : CallFillSingle(Writer, v, s)
DoFixSingle == \E s \in Slots, v \in SeqDeltas : CallFixSingle(Writer, s, v)
DoFixHalfTree == \E l \in SeqLists, v \in SeqDeltas : CallFixHalfTree(Writer, l, v)
DoLookUp == \E k \in Keys : CallLookUp(Writer, k)

Step(t) ==
  \/ FixGet(t)
  \/ LockLoad(t)
  \/ LockStore(t)
  \/ StoreW0And(t)
  \/ StoreW0Or(t)
  \/ StoreW1And(t)
  \/ StoreW1Or(t)

LookUpStep(t) ==
  \/ ReadVa1(t)
  \/ ReadVb1(t)
  \/ ReadAA(t)
  \/ ReadBB(t)
  \/ ReadVa2(t)
  \/ ReadVb2(t)

Next ==
  \/ DoMemSet
  \/ DoMemValueSet
  \/ DoFillSingle
  \/ DoFixSingle
  \/ DoFixHalfTree
  \/ DoLookUp
  \/ Step(Writer)
  \/ LookUpStep(Writer)
  \/ WildIncrement(Writer)

Spec == Init /\ [][Next]_vars

----------------------------------------------------------------------------
(* what the table holds, read off the bit array itself *)

LowBits(n) == 0 .. (n - 1)

\* bits [from, from + width) of the packed array, as a number's bit set
BitsAt(m, from, width) ==
  {j \in LowBits(width) : ((from + j) % WordBits) \in m[(from + j) \div WordBits]}

SlotBits(m, s) == BitsAt(m, s * VCL, VCL)
ControlBits(m, s) == BitsAt(m, s * VCL, CL)
ValueBits(m, s) == BitsAt(m, s * VCL + CL, L)

Range(q) == {q[i] : i \in DOMAIN q}

\* the last call, made sequentially, has returned
Returned(op) ==
  /\ cfg.seq
  /\ ~fault
  /\ Quiescent
  /\ hist.call[1] = op

----------------------------------------------------------------------------
(* claims checked under Spec *)

\* C3: in a quiescent state after a repair call, for every key the value lookUp
\* hands back, (memGet(aIdx) ^ memGet(bIdx)) >> CL, is the xor of the value
\* sub-fields of the key's two slots, and equals memValueGet(aIdx) ^ memValueGet(bIdx)
C3_LookUpIsXorOfValues ==
  (\/ Returned("fillSingle")
   \/ Returned("fixSingle")
   \/ Returned("fixHalfTree"))
  => \A k \in Keys :
       /\ LookUpValue(memGet(mem, k[1]), memGet(mem, k[2]))
            = Xor(ValueBits(mem, k[1]), ValueBits(mem, k[2]))
       /\ LookUpValue(memGet(mem, k[1]), memGet(mem, k[2]))
            = Xor(memValueGet(mem, k[1]), memValueGet(mem, k[2]))

\* C5: memValueSet(s, v) then memValueGet(s) gives v mod 2^L, and memSet(s, v)
\* then memGet(s) gives v mod 2^(L+CL), for every layout with L + CL <= 64
C5_RoundTrip ==
  /\ Returned("memValueSet")
       => memValueGet(mem, hist.call[2]) = hist.call[3] \cap LowBits(L)
  /\ Returned("memSet")
       => memGet(mem, hist.call[2]) = hist.call[3] \cap LowBits(VCL)

\* C6: after fixHalfTreeByConnectedComponent(indices, d) with pairwise distinct
\* indices and d < 2^L, every listed slot's value sub-field is its previous
\* value xor d and every other slot's value sub-field is unchanged
C6_ComponentFixAppliesDelta ==
  Returned("fixHalfTree")
  => \A s \in Slots :
       ValueBits(mem, s) =
         IF s \in Range(hist.call[2])
           THEN Xor(ValueBits(hist.pre, s), hist.call[3])
           ELSE ValueBits(hist.pre, s)

\* C9: with CL > 0, a lookUp that returns leaves the control sub-field of each
\* of its two slots one higher (modulo 2^CL), and each of the two write-backs
\* is bracketed by two increments of that slot's version counter
C9_LookUpCountsTouches ==
  (Returned("lookUp") /\ CL > 0)
  => LET a == hist.call[2]
         b == hist.call[3]
     IN  /\ NumOf(ControlBits(mem, a)) = (NumOf(ControlBits(hist.pre, a)) + 1) % (2^CL)
         /\ NumOf(ControlBits(mem, b)) = (NumOf(ControlBits(hist.pre, b)) + 1) % (2^CL)
         /\ lock[LockOf(a)] = (hist.prelock[LockOf(a)] + 2) % CounterMod
         /\ lock[LockOf(b)] = (hist.prelock[LockOf(b)] + 2) % CounterMod

----------------------------------------------------------------------------
(* SpecScenario: the table ma = 4, mb = 4, L = 8, CL = 0 and the key k1 that *)
(* hashes to (aIdx, bIdx) = (1, 6); the calls are recorded in hist.trace    *)

MaxScenarioCalls == 5

ScenarioConfig ==
  [L |-> 8, CL |-> 0, ma |-> 4, mb |-> 4, shift |-> "zero",
   seq |-> TRUE, trace |-> TRUE, written |-> FALSE, maxops |-> MaxScenarioCalls]

k1 == <<1, 6>>

\* first and second argument of the fillSingle calls: slot first and value
\* second, and value first and slot second
ScenarioFills == { <<1, 42>>, <<6, 0>>, <<42, 1>>, <<0, 6>> }

InitScenario ==
  Construct(ScenarioConfig, AllZero(ScenarioConfig),
            [i \in LockIdx(ScenarioConfig) \cup {LockOf(42)} |-> 0], {Writer})

ScenarioFill == \E a \in ScenarioFills : CallFillSingle(Writer, BitsOf(a[1]), a[2])
ScenarioFix == CallFixSingle(Writer, 6, Xor(BitsOf(42), BitsOf(7)))
ScenarioLookUp == CallLookUp(Writer, k1)

NextScenario ==
  \/ ScenarioFill
  \/ ScenarioFix
  \/ ScenarioLookUp
  \/ FixGet(Writer)
  \/ LockLoad(Writer)
  \/ LockStore(Writer)
  \/ StoreW0And(Writer)
  \/ StoreW0Or(Writer)
  \/ ReadVa1(Writer)
  \/ ReadVb1(Writer)
  \/ ReadAA(Writer)
  \/ ReadBB(Writer)
  \/ ReadVa2(Writer)
  \/ ReadVb2(Writer)

SpecScenario == InitScenario /\ [][NextScenario]_vars

Fill(a, b) == <<"fillSingle", BitsOf(a), b>>
Fix(a, b) == <<"fixSingle", a, BitsOf(b)>>
Look(k) == <<"lookUp", k[1], k[2]>>

\* the calls made so far are exactly q, and the last of them has returned
After(q) == hist.trace = q /\ Quiescent /\ ~fault

----------------------------------------------------------------------------
(* SpecToggle: CL = 0; the control-plane thread keeps toggling the value of  *)
(* slot 0 with fixSingle while a reader keeps looking up the key (0, 1)     *)

Reader1 == "r1"

ToggleConfig ==
  [L |-> 8, CL |-> 0, ma |-> 1, mb |-> 1, shift |-> "zero",
   seq |-> FALSE, trace |-> FALSE, written |-> TRUE, maxops |-> 0]

\* slot 0 holds 1 and slot 1 holds 4
ToggleMem == [w \in {0} |-> {0, 10}]

InitToggle ==
  Construct(ToggleConfig, ToggleMem, [i \in LockIdx(ToggleConfig) |-> 0],
            {Writer, Reader1})

\* fixSingle(0, 3): slot 0 alternates between 1 and 2
Toggle == CallFixSingle(Writer, 0, {0, 1})
ToggleLookUp == CallLookUp(Reader1, <<0, 1>>)

NextToggle ==
  \/ Toggle
  \/ ToggleLookUp
  \/ FixGet(Writer)
  \/ LockLoad(Writer)
  \/ LockStore(Writer)
  \/ StoreW0And(Writer)
  \/ StoreW0Or(Writer)
  \/ ReadVa1(Reader1)
  \/ ReadVb1(Reader1)
  \/ ReadAA(Reader1)
  \/ ReadBB(Reader1)
  \/ ReadVa2(Reader1)
  \/ ReadVb2(Reader1)

SpecToggle == InitToggle /\ [][NextToggle]_vars

\* the reader has accepted an iteration of its loop
Accepted(r) == r.op = "lookUp" /\ r.ret = "true"

\* C1: every value a lookUp returns is slot[aIdx] ^ slot[bIdx] for slot contents
\* that were fully written at some point; never one built from a half-written slot
C1_NoTornRead ==
  \A t \in Readers :
    Accepted(th[t]) =>
      \E x \in hist.written[th[t].ha] : \E y \in hist.written[th[t].hb] :
        th[t].v = LookUpValue(x, y)

\* C2: lookUp accepts its snapshot only if no write to a slot sharing one of its
\* two version counters was in progress at its first read of that counter, or
\* started or completed between its first and its second read of it
C2_AcceptsOnlyQuietWindow ==
  \A t \in Readers : Accepted(th[t]) => (~th[t].dA /\ ~th[t].dB)

----------------------------------------------------------------------------
(* SpecAlias: CL = 0 and a table of more than 8192 slots.  Slot X = 8192 and *)
(* slot Y = 0 share version counter lock[0] and lie in different words; the  *)
(* control-plane thread writes X while a reader looks up the key (Y, 1)      *)

MaxAliasCalls == 2

AliasConfig ==
  [L |-> 2, CL |-> 0, ma |-> 1, mb |-> 8192, shift |-> "zero",
   seq |-> FALSE, trace |-> FALSE, written |-> FALSE, maxops |-> MaxAliasCalls]

SlotX == LockSize
SlotY == SlotX - LockSize
AliasKey == <<SlotY, 1>>

\* slot Y holds 2, slot 1 holds 1, every other slot 0
AliasMem == [w \in 0 .. (MemWords(AliasConfig) - 1) |-> IF w = 0 THEN {1, 2} ELSE {}]

\* the shared counter is 0, or 254 and about to wrap around
InitAlias ==
  \E c0 \in {0, 254} :
    Construct(AliasConfig, AliasMem, [i \in {0, 1} |-> IF i = 0 THEN c0 ELSE 0],
              {Writer, Reader1})

AliasFill == \E v \in {{0}, {1}} : CallFillSingle(Writer, v, SlotX)
AliasFix == CallFixSingle(Writer, SlotX, {0, 1})
AliasLookUp == CallLookUp(Reader1, AliasKey)

NextAlias ==
  \/ AliasFill
  \/ AliasFix
  \/ AliasLookUp
  \/ FixGet(Writer)
  \/ LockLoad(Writer)
  \/ LockStore(Writer)
  \/ StoreW0And(Writer)
  \/ StoreW0Or(Writer)
  \/ ReadVa1(Reader1)
  \/ ReadVb1(Reader1)
  \/ ReadAA(Reader1)
  \/ ReadBB(Reader1)
  \/ ReadVa2(Reader1)
  \/ ReadVb2(Reader1)

SpecAlias == InitAlias /\ [][NextAlias]_vars

\* C7: writes to X, which shares Y's version counter and lies in another word,
\* never change the stored content of Y, and every lookUp on a key touching Y
\* returns the value computed from Y's unchanged content (hist.pre is the
\* table as constructed)
C7_AliasingSafety ==
  /\ LockOf(SlotX) = LockOf(SlotY)
  /\ memGetStart(SlotX) # memGetStart(SlotY)
  /\ SlotBits(mem, SlotY) = SlotBits(hist.pre, SlotY)
  /\ \A t \in Readers :
       Accepted(th[t]) =>
         th[t].v = Xor(SlotBits(hist.pre, SlotY), SlotBits(hist.pre, AliasKey[2]))

\* a lookUp on the key touching Y has returned the right value after writes to
\* X moved the shared counter and changed X
C7_Witness ==
  /\ Accepted(th[Reader1])
  /\ th[Reader1].v = {0, 1}
  /\ lock[LockOf(SlotY)] # hist.prelock[LockOf(SlotY)]
  /\ SlotBits(mem, SlotX) # SlotBits(hist.pre, SlotX)

----------------------------------------------------------------------------
(* SpecConc: the control-plane thread makes repair calls while another      *)
(* thread is inside lookUp, without (CL = 0) and with (CL > 0) control bits *)

MaxConcCalls == 1

ConcConfigs ==
  { [L |-> y[1], CL |-> y[2], ma |-> 2, mb |-> 1, shift |-> "zero",
     seq |-> FALSE, trace |-> FALSE, written |-> FALSE, maxops |-> MaxConcCalls] :
       y \in {<<8, 0>>, <<6, 2>>} }

\* slot 0 holds value 1 and slot 1 holds value 2, control bits 0, any further
\* slot 0
ConcMem(c) == [w \in {0} |-> {c.CL, c.L + 2 * c.CL + 1}]

InitConc ==
  \E c \in ConcConfigs :
    Construct(c, ConcMem(c), [i \in LockIdx(c) |-> 0], {Writer, Reader1})

ConcFill == \E s \in Slots : CallFillSingle(Writer, {0, 1}, s)
ConcFix == \E s \in Slots : CallFixSingle(Writer, s, {1})
ConcFixHalfTree == CallFixHalfTree(Writer, <<0, 2>>, {0})
ConcLookUp == \E t \in Readers, k \in Keys : CallLookUp(t, k)
ConcLookUpValue == \E t \in Readers, k \in Keys : CallLookUpValue(t, k)

NextConc ==
  \/ ConcFill
  \/ ConcFix
  \/ ConcFixHalfTree
  \/ ConcLookUp
  \/ ConcLookUpValue
  \/ FixGet(Writer)
  \/ LockLoad(Writer)
  \/ LockStore(Writer)
  \/ StoreW0And(Writer)
  \/ StoreW0Or(Writer)
  \/ ReadVa1(Reader1)
  \/ ReadVb1(Reader1)
  \/ ReadAA(Reader1)
  \/ ReadBB(Reader1)
  \/ ReadVa2(Reader1)
  \/ ReadVb2(Reader1)
  \/ WildIncrement(Reader1)
  \/ LockLoad(Reader1)
  \/ LockStore(Reader1)
  \/ StoreW0And(Reader1)
  \/ StoreW0Or(Reader1)

SpecConc == InitConc /\ [][NextConc]_vars

\* C8: every return of lookUp(k, v) returns true, and the value-returning
\* lookUp(k) never reaches its "No matched key" throw
C8_LookUpAlwaysSucceeds ==
  \A t \in Threads :
    /\ th[t].ret \in {"none", "true"}
    /\ th[t].pc # "thrown"
    /\ (th[t].op = "lookUp" /\ th[t].pc = "done") => th[t].ret = "true"

\* with control bits, a value-returning lookUp has returned while the repair
\* thread is between the two counter increments of a write
C8_Witness ==
  /\ CL > 0
  /\ th[Reader1].pc = "done"
  /\ th[Reader1].variant = "value"
  /\ th[Reader1].ret = "true"
  /\ th[Writer].pc \in {"w0_and", "w0_or", "inc2_ld"}

----------------------------------------------------------------------------------------------------------------------------------------
(* SpecStall: one lookUp against a control-plane thread that fills slots.    *)
(* The thread inside lookUp is always scheduled again (it makes no blocking *)
(* call); the control-plane thread may be suspended at any statement, for   *)
(* any length of time                                                       *)

MaxStallWrites == 2

StallConfigs ==
  { [L |-> y[1], CL |-> y[2], ma |-> 1, mb |-> 1, shift |-> "zero",
     seq |-> FALSE, trace |-> FALSE, written |-> FALSE, maxops |-> MaxStallWrites] :
       y \in {<<8, 0>>, <<6, 2>>} }

InitStall ==
  \E c \in StallConfigs :
    Construct(c, ConcMem(c), [i \in LockIdx(c) |-> 0], {Writer, Reader1})

StallFill == \E s \in Slots, v \in {{0}, {1}} : CallFillSingle(Writer, v, s)
StallLookUp == hist.w[Reader1] = 0 /\ \E k \in Keys : CallLookUp(Reader1, k)

ReaderStep ==
  \/ ReadVa1(Reader1)
  \/ ReadVb1(Reader1)
  \/ ReadAA(Reader1)
  \/ ReadBB(Reader1)
  \/ ReadVa2(Reader1)
  \/ ReadVb2(Reader1)
  \/ WildIncrement(Reader1)
  \/ LockLoad(Reader1)
  \/ LockStore(Reader1)
  \/ StoreW0And(Reader1)
  \/ StoreW0Or(Reader1)

NextStall ==
  \/ StallFill
  \/ StallLookUp
  \/ LockLoad(Writer)
  \/ LockStore(Writer)
  \/ StoreW0And(Writer)
  \/ StoreW0Or(Writer)
  \/ ReaderStep

SpecStall == InitStall /\ [][NextStall]_vars /\ WF_vars(ReaderStep)

\* the reader is at the head of an iteration of while (true) / inside the loop
AtHead == th[Reader1].op = "lookUp" /\ th[Reader1].pc = "va1"
InLoop ==
  /\ th[Reader1].op = "lookUp"
  /\ th[Reader1].pc \in {"va1", "vb1", "aa0", "aa1", "bb0", "bb1", "va2", "vb2"}

\* one of the two version counters of the reader's key is odd
OddCounter ==
  \/ lock[LockOf(th[Reader1].ha)] % 2 = 1
  \/ lock[LockOf(th[Reader1].hb)] % 2 = 1

\* the control-plane thread is between the two counter increments of a write
MidWrite == th[Writer].pc \in {"w0_and", "w0_or", "w1_and", "w1_or", "inc2_ld", "inc2_st"}

\* C10 as stated: whatever the writer does, also when it is suspended between
\* its two counter increments, a lookUp that has started leaves its retry loop
\* (and returns) after finitely many of its own iterations
C10_ReadersNeverBlock == AtHead ~> ~InLoop

\* C10 as amended: an iteration that starts while a counter of the key is odd
\* never leaves the retry loop as long as the counter stays odd, and the loop
\* is left once the counters stay even
C10_RetriesUntilCountersEven ==
  /\ []((AtHead /\ []OddCounter) => []InLoop)
  /\ (<>[](~OddCounter)) => (AtHead ~> ~InLoop)

\* the writer is suspended between its two increments and the reader, having
\* read the odd counter, is about to retry
C10_Witness ==
  /\ MidWrite
  /\ th[Reader1].pc = "vb1"
  /\ th[Reader1].va1 % 2 = 1

----------------------------------------------------------------------------
(* SpecFrame: one thread calls memSet and memValueSet one after the other,  *)
(* in the layouts of Spec                                                   *)

MaxFrameCalls == 2

FrameBuilds == {[c EXCEPT !.maxops = MaxFrameCalls] : c \in SeqBuilds}

InitFrame ==
  \E c \in FrameBuilds :
    \E m \in {AllZero(c), AllOnes(c)} :
      Construct(c, m, [i \in LockIdx(c) |-> 0], {Writer})

NextFrame ==
  \/ DoMemSet
  \/ DoMemValueSet
  \/ LockLoad(Writer)
  \/ LockStore(Writer)
  \/ StoreW0And(Writer)
  \/ StoreW0Or(Writer)
  \/ StoreW1And(Writer)
  \/ StoreW1Or(Writer)

SpecFrame == InitFrame /\ [][NextFrame]_vars

\* C14: memValueSet(s, v) leaves the CL control bits of slot s and every bit of
\* every other slot as they were, and memSet(s, v) leaves every bit of every
\* other slot as it was; of the version counters only lock[s mod 8192] changes
C14_SetterFrame ==
  (Returned("memValueSet") \/ Returned("memSet"))
  => LET s == hist.call[2]
     IN  /\ Returned("memValueSet") => ControlBits(mem, s) = ControlBits(hist.pre, s)
         /\ \A u \in Slots \ {s} : SlotBits(mem, u) = SlotBits(hist.pre, u)
         /\ \A c \in DOMAIN lock : c # LockOf(s) => lock[c] = hist.prelock[c]

\* memValueSet has returned on a slot with control bits that continues in the
\* next word, and has changed its value bits
C14_Witness ==
  /\ Returned("memValueSet")
  /\ CL > 0
  /\ memValueSetLeft(hist.call[2]) > 0
  /\ ValueBits(mem, hist.call[2]) # ValueBits(hist.pre, hist.call[2])
  /\ lock[LockOf(hist.call[2])] # hist.prelock[LockOf(hist.call[2])]

----------------------------------------------------------------------------
(* getIndices: 64-bit arithmetic on words kept as bit sets *)

\* x + y on uint64_t (modulo 2^64)
RECURSIVE Add64(_, _)
Add64(x, y) == IF y = {} THEN x ELSE Add64(Xor(x, y), ShL(And(x, y), 1))

\* x * y on uint64_t (modulo 2^64)
RECURSIVE Mul64(_, _)
Mul64(x, y) ==
  IF y = {} THEN {}
  ELSE LET b == CHOOSE b \in y : TRUE
       IN  Add64(ShL(x, b), Mul64(x, y \ {b}))

\* a mutant of multiply_high_u32: the low half of the product
multiply_high_u32_Low(x, y) == U32(Mul64(U32(x), U32(y)))

\* (uint32_t) (((uint64_t) x * (uint64_t) y) >> 32), x and y uint32_t
multiply_high_u32(x, y) == U32(ShR(Mul64(U32(x), U32(y)), 32))

\* fast_map_to_A(uint32_t x) { return multiply_high_u32(x, ma); }
fast_map_to_A(x, Ma) == multiply_high_u32(U32(x), Ma)
fast_map_to_B(x, Mb) == multiply_high_u32(U32(x), Mb)

\* hash = hab(k); bInd = fast_map_to_B(hash >> 32) + ma; aInd = fast_map_to_A(hash);
\* aInd and bInd are uint32_t.  The result is <<aInd, bInd>>.
getIndices(hash, Ma, Mb) ==
  << U32(fast_map_to_A(hash, Ma)),
     U32(Add64(fast_map_to_B(ShR(hash, 32), Mb), Ma)) >>

----------------------------------------------------------------------------
(* SpecHash: getIndices on hashes and table sizes up to the limits of       *)
(* their widths; cfg holds the hash of the key and ma, mb as 32-bit words   *)

Bit(n) == {n}
AllBits(n) == 0 .. (n - 1)

Hashes ==
  { {}, Bit(0), Bit(31), Bit(32), Bit(63), AllBits(32), AllBits(64) \ AllBits(32),
    AllBits(64), {1, 5, 17, 30, 33, 47, 62}, {0, 16, 31, 32, 48, 63},
    AllBits(64) \ {0, 32}, {31, 63} }

\* 1, 2, 3, 5, 255, 65537, 2^31, 2^31 + 1, 2^32 - 2
Sizes ==
  { Bit(0), Bit(1), {0, 1}, {0, 2}, AllBits(8), {0, 16}, Bit(31), {0, 31},
    AllBits(32) \ Bit(0) }

\* ma + mb < 2^32
SizePairs == {p \in Sizes \X Sizes : Add64(p[1], p[2]) \cap (32 .. 63) = {}}

InitHash ==
  /\ \E h \in Hashes, p \in SizePairs : cfg = [hash |-> h, Ma |-> p[1], Mb |-> p[2]]
  /\ mem = <<>>
  /\ lock = <<>>
  /\ th = [t \in {Reader1} |-> Fresh]
  /\ fault = FALSE
  /\ hist = <<>>

\* uint32_t ha, hb; getIndices(k, ha, hb);  (ha and hb kept as 32-bit words)
GetIndices(t) ==
  /\ th[t].pc = "idle"
  /\ th' = [th EXCEPT ![t].op = "getIndices", ![t].pc = "done",
                      ![t].ha = getIndices(cfg.hash, cfg.Ma, cfg.Mb)[1],
                      ![t].hb = getIndices(cfg.hash, cfg.Ma, cfg.Mb)[2]]
  /\ UNCHANGED <<cfg, mem, lock, fault, hist>>

NextHash == GetIndices(Reader1)

SpecHash == InitHash /\ [][NextHash]_vars

\* the same numbers in base 256, least significant digit first, with the
\* arithmetic of the integers
RefDigits(x) ==
  [k \in 0 .. 7 |-> NumOf({b - 8 * k : b \in x \cap ((8 * k) .. (8 * k + 7))})]

RECURSIVE RefCarry(_, _)
RefCarry(s, k) == IF k = 0 THEN 0 ELSE (s[k - 1] + RefCarry(s, k - 1)) \div 256

RefNorm(s) == [k \in 0 .. 7 |-> (s[k] + RefCarry(s, k)) % 256]

RefTerm(x, y, i, k) == IF i <= 3 /\ k - i >= 0 /\ k - i <= 3 THEN x[i] * y[k - i] ELSE 0

\* x * y for x, y < 2^32
RefMul(x, y) ==
  RefNorm([k \in 0 .. 7 |->
             RefTerm(x, y, 0, k) + RefTerm(x, y, 1, k)
               + RefTerm(x, y, 2, k) + RefTerm(x, y, 3, k)])

RefAdd(x, y) == RefNorm([k \in 0 .. 7 |-> x[k] + y[k]])

\* floor(x / 2^32) and x mod 2^32
RefHigh(x) == [k \in 0 .. 7 |-> IF k <= 3 THEN x[k + 4] ELSE 0]
RefLow(x) == [k \in 0 .. 7 |-> IF k <= 3 THEN x[k] ELSE 0]

RefLess(x, y) ==
  \E k \in 0 .. 7 : x[k] < y[k] /\ \A j \in (k + 1) .. 7 : x[j] = y[j]

\* C12: aIdx = floor((h mod 2^32) * ma / 2^32) with 0 <= aIdx < ma, and
\* bIdx = ma + floor((h div 2^32) * mb / 2^32) with ma <= bIdx < ma + mb, so the
\* two indices are valid and distinct
C12_IndicesInRange ==
  (th[Reader1].op = "getIndices" /\ th[Reader1].pc = "done")
  => LET h    == RefDigits(cfg.hash)
         a    == RefDigits(th[Reader1].ha)
         b    == RefDigits(th[Reader1].hb)
         sa   == RefDigits(cfg.Ma)
         sb   == RefDigits(cfg.Mb)
     IN  /\ a = RefHigh(RefMul(RefLow(h), sa))
         /\ RefLess(a, sa)
         /\ b = RefAdd(sa, RefHigh(RefMul(RefHigh(h), sb)))
         /\ ~RefLess(b, sa)
         /\ RefLess(b, RefAdd(sa, sb))
         /\ a # b

\* getIndices has run on a hash with both halves set and a table whose size
\* needs all 32 bits, and has chosen the last slot of array B
C12_Witness ==
  /\ th[Reader1].op = "getIndices"
  /\ th[Reader1].pc = "done"
  /\ cfg.hash = AllBits(64)
  /\ cfg.Ma = AllBits(32) \ Bit(0)
  /\ th[Reader1].ha = AllBits(32) \ Bit(1)
  /\ th[Reader1].hb = AllBits(32) \ Bit(0)

----------------------------------------------------------------------------
(* SpecSnap: CL = 0.  The control-plane thread writes the two slots of a    *)
(* key, one bracketed write after the other, while a reader looks the key   *)
(* up; in one table slot hb continues in the next word, in the other the    *)
(* two slots share one version counter                                      *)

MaxSnapWrites == 2

SnapConfigs ==
  { [L |-> y[1], CL |-> 0, ma |-> 1, mb |-> y[2], shift |-> "zero",
     seq |-> FALSE, trace |-> FALSE, written |-> FALSE, maxops |-> MaxSnapWrites,
     snap |-> TRUE] :
       y \in {<<40, 1>>, <<2, LockSize>>} }

\* the key of the table: slot 0 and the last slot of array B
SnapKey == <<0, ma + mb - 1>>

\* the version counters start at 0, or at 254 and about to wrap around
InitSnap ==
  \E c \in SnapConfigs, c0 \in {0, 254} :
    Construct(c, AllZero(c),
              [i \in {0, (c.ma + c.mb - 1) % LockSize} |-> c0], {Writer, Reader1})

SnapFill == \E i \in {1, 2}, v \in {{0}, {1}} : CallFillSingle(Writer, v, SnapKey[i])
SnapFix == \E i \in {1, 2} : CallFixSingle(Writer, SnapKey[i], {0, 1})
SnapMemSet == CallMemSet(Writer, SnapKey[2], {0, 1, L - 1})
SnapLookUp == hist.w[Reader1] = 0 /\ CallLookUp(Reader1, SnapKey)

NextSnap ==
  \/ SnapFill
  \/ SnapFix
  \/ SnapMemSet
  \/ SnapLookUp
  \/ Step(Writer)
  \/ LookUpStep(Reader1)

SpecSnap == InitSnap /\ [][NextSnap]_vars

\* C17: the pair (aa, bb) a returning lookUp computes its value from is what
\* slot aIdx and slot bIdx both held at one instant between the call and the
\* return (the instant of the last load of memGet(hb))
C17_AtomicPairSnapshot ==
  [][\A t \in Readers :
       (th[t].pc = "vb2" /\ th'[t].ret = "true")
         => th[t].snap = <<th[t].aa, th[t].bb>>]_vars

\* a lookUp has returned a value made of both slots' new contents after the
\* writer has written them in two separate calls
C17_Witness ==
  /\ Accepted(th[Reader1])
  /\ hist.w[Writer] = 2
  /\ SlotBits(mem, SnapKey[1]) # {}
  /\ SlotBits(mem, SnapKey[2]) # {}
  /\ th[Reader1].v = Xor(SlotBits(mem, SnapKey[1]), SlotBits(mem, SnapKey[2]))
  /\ th[Reader1].v # {}

\* no store of the lock[index & 8191]++ of a write is pending on counter c
\* other than between the write's two increments
BracketInv ==
  \A c \in DOMAIN lock :
    (lock[c] % 2 = 1) <=> (MidWrite /\ LockOf(th[Writer].index) = c)

\* C13: a version counter is odd exactly when a write to a slot that maps to it
\* is between its two increments, every change of a word of mem happens while
\* the counter of the slot being written is odd, and this holds across the
\* wrap-around 255 -> 0
C13_WriterBracket ==
  /\ []BracketInv
  /\ [][mem' # mem => (MidWrite /\ lock[LockOf(th[Writer].index)] % 2 = 1)]_vars

\* a write is between its two increments after its counter has wrapped around
C13_Witness ==
  /\ MidWrite
  /\ hist.prelock[LockOf(th[Writer].index)] = 254
  /\ lock[LockOf(th[Writer].index)] = 1

----------------------------------------------------------------------------
(* SpecLive: the threads of SpecSnap on the table whose slot hb continues in *)
(* the next word, where every thread that can take a step eventually takes  *)
(* one; the writer makes at most MaxLiveWrites calls, so its writes cease   *)

MaxLiveWrites == 2

InitLive ==
  \E c \in {d \in SnapConfigs : d.mb = 1} :
    Construct([c EXCEPT !.maxops = MaxLiveWrites], AllZero(c),
              [i \in {0, 1} |-> 0], {Writer, Reader1})

SpecLive ==
  /\ InitLive
  /\ [][NextSnap]_vars
  /\ WF_vars(LookUpStep(Reader1))
  /\ WF_vars(Step(Writer))

\* C11: every lookUp that was called eventually returns, with success, and no
\* lookUp ever reports a failure
C11_LookUpEventuallyReturns ==
  /\ InLoop ~> Accepted(th[Reader1])
  /\ [](\A t \in Threads : th[t].ret # "false" /\ th[t].pc # "thrown")

\* the reader has read an odd counter, and retries, while a write is between
\* its two increments
C11_Witness ==
  /\ MidWrite
  /\ th[Reader1].pc = "vb1"
  /\ th[Reader1].va1 % 2 = 1
  /\ hist.w[Writer] = 2

----------------------------------------------------------------------------
(* SpecWriteBack: CL > 0; the control-plane thread repairs slot 0 while a    *)
(* reader looks up the key (0, 1), whose lookUp ends with memSet(ha, aa)    *)
(* and memSet(hb, bb)                                                       *)

MaxWriteBackCalls == 1

WriteBackConfig ==
  [L |-> 6, CL |-> 2, ma |-> 1, mb |-> 1, shift |-> "zero",
   seq |-> FALSE, trace |-> TRUE, written |-> FALSE, maxops |-> MaxWriteBackCalls]

\* slot 0 holds value 2 and slot 1 holds value 0, control bits 0
WriteBackMem == [w \in {0} |-> {WriteBackConfig.CL + 1}]

InitWriteBack ==
  Construct(WriteBackConfig, WriteBackMem, [i \in LockIdx(WriteBackConfig) |-> 0],
            {Writer, Reader1})

\* fillSingle(1, 0) and fixSingle(0, 6)
WriteBackFill == CallFillSingle(Writer, {0}, 0)
WriteBackFix == CallFixSingle(Writer, 0, {1, 2})
WriteBackLookUp == CallLookUp(Reader1, <<0, 1>>)

NextWriteBack ==
  \/ WriteBackFill
  \/ WriteBackFix
  \/ WriteBackLookUp
  \/ FixGet(Writer)
  \/ LockLoad(Writer)
  \/ LockStore(Writer)
  \/ StoreW0And(Writer)
  \/ StoreW0Or(Writer)
  \/ ReadVa1(Reader1)
  \/ ReadVb1(Reader1)
  \/ ReadAA(Reader1)
  \/ ReadBB(Reader1)
  \/ ReadVa2(Reader1)
  \/ ReadVb2(Reader1)
  \/ WildIncrement(Reader1)
  \/ LockLoad(Reader1)
  \/ LockStore(Reader1)
  \/ StoreW0And(Reader1)
  \/ StoreW0Or(Reader1)

SpecWriteBack == InitWriteBack /\ [][NextWriteBack]_vars

\* the value sub-field of the slot a repair call names is what that call wrote
RepairStands(m, call) ==
  /\ call[1] = "fillSingle" => ValueBits(m, call[3]) = call[2]
  /\ call[1] = "fixSingle" =>
       ValueBits(m, call[2]) = Xor(call[3], ValueBits(hist.pre, call[2]))

\* C15: when a lookUp returns after a repair write to one of its slots has
\* completed, the value sub-field of that slot is the value the repair wrote
C15_LookUpKeepsRepair ==
  [][(/\ th[Reader1].pc # "done"
      /\ th'[Reader1].pc = "done"
      /\ th[Writer].pc = "idle"
      /\ hist.w[Writer] = 1)
       => \A i \in DOMAIN hist.trace : RepairStands(mem', hist.trace[i])]_vars

----------------------------------------------------------------------------
(* SpecReaders: CL > 0; two threads look up the key (0, 1) at the same time, *)
(* no control-plane thread                                                  *)

Reader2 == "r2"

MaxReaderCalls == 1

ReadersConfig ==
  [L |-> 6, CL |-> 2, ma |-> 1, mb |-> 1, shift |-> "zero",
   seq |-> FALSE, trace |-> FALSE, written |-> FALSE, maxops |-> MaxReaderCalls]

InitReaders ==
  Construct(ReadersConfig, AllZero(ReadersConfig),
            [i \in LockIdx(ReadersConfig) |-> 0], {Reader1, Reader2})

ReadersLookUp == \E t \in Threads : CallLookUp(t, <<0, 1>>)

NextReaders ==
  \/ ReadersLookUp
  \/ \E t \in Threads : ReadVa1(t)
  \/ \E t \in Threads : ReadVb1(t)
  \/ \E t \in Threads : ReadAA(t)
  \/ \E t \in Threads : ReadBB(t)
  \/ \E t \in Threads : ReadVa2(t)
  \/ \E t \in Threads : ReadVb2(t)
  \/ \E t \in Threads : WildIncrement(t)
  \/ \E t \in Threads : LockLoad(t)
  \/ \E t \in Threads : LockStore(t)
  \/ \E t \in Threads : StoreW0And(t)
  \/ \E t \in Threads : StoreW0Or(t)

SpecReaders == InitReaders /\ [][NextReaders]_vars

\* thread t is inside memSet or memValueSet
InSet(t) ==
  th[t].pc \in {"inc1_ld", "inc1_st", "w0_and", "w0_or", "w1_and", "w1_or",
                "inc2_ld", "inc2_st"}

\* C16: whenever no thread is inside memSet or memValueSet, every version
\* counter is even
C16_CountersEvenAtRest ==
  (\A t \in Threads : ~InSet(t)) => \A c \in DOMAIN lock : lock[c] % 2 = 0

----------------------------------------------------------------------------
(* SpecComponent: one thread; fixHalfTreeByConnectedComponent on lists of    *)
(* distinct indices and on lists that name an index twice, in the layouts   *)
(* whose slots are narrower than a word                                     *)

MaxComponentCalls == 1

ComponentBuilds ==
  {[c EXCEPT !.maxops = MaxComponentCalls] : c \in {b \in SeqBuilds : b.L + b.CL < WordBits}}

ComponentLists ==
  {<<s>> : s \in Slots} \cup {<<p[1], p[2]>> : p \in Slots \X Slots}

InitComponent ==
  \E c \in ComponentBuilds :
    \E m \in {AllZero(c), AllOnes(c)} :
      Construct(c, m, [i \in LockIdx(c) |-> 0], {Writer})

ComponentFix == \E l \in ComponentLists, d \in SeqDeltas : CallFixHalfTree(Writer, l, d)

NextComponent ==
  \/ ComponentFix
  \/ FixGet(Writer)
  \/ LockLoad(Writer)
  \/ LockStore(Writer)
  \/ StoreW0And(Writer)
  \/ StoreW0Or(Writer)
  \/ StoreW1And(Writer)
  \/ StoreW1Or(Writer)

SpecComponent == InitComponent /\ [][NextComponent]_vars

\* what lookUp(k) returns on table m when no other thread runs
LookUpOf(m, k) == LookUpValue(memGet(m, k[1]), memGet(m, k[2]))

\* how often index s is listed
Listed(indices, s) == Cardinality({i \in DOMAIN indices : indices[i] = s})

\* C18: after fixHalfTreeByConnectedComponent(indices, d) with distinct indices,
\* lookUp(k) is its previous result XOR d for a key with exactly one slot
\* listed and unchanged for every other key; a slot listed twice keeps its value
C18_ComponentFixOnKeys ==
  Returned("fixHalfTree") =>
    LET indices == hist.call[2]
        d       == hist.call[3]
    IN
    /\ (\A s \in Slots : Listed(indices, s) <= 1) =>
         \A k \in Keys :
           LookUpOf(mem, k) =
             IF Listed(indices, k[1]) + Listed(indices, k[2]) = 1
               THEN Xor(LookUpOf(hist.pre, k), d)
               ELSE LookUpOf(hist.pre, k)
    /\ \A s \in Slots :
         Listed(indices, s) > 1 => ValueBits(mem, s) = ValueBits(hist.pre, s)

----------------------------------------------------------------------------
(* SpecComponentRace: CL = 0; the control-plane thread makes one call        *)
(* fixHalfTreeByConnectedComponent({0, 1}, 3) while a reader looks up the   *)
(* key (0, 1), both of whose slots are listed                               *)

MaxRaceCalls == 1

RaceConfig ==
  [L |-> 8, CL |-> 0, ma |-> 1, mb |-> 1, shift |-> "zero",
   seq |-> FALSE, trace |-> FALSE, written |-> FALSE, maxops |-> MaxRaceCalls]

\* slot 0 holds 1 and slot 1 holds 4
RaceMem == [w \in {0} |-> {0, RaceConfig.L + 2}]

InitRace ==
  Construct(RaceConfig, RaceMem, [i \in LockIdx(RaceConfig) |-> 0], {Writer, Reader1})

RaceFix == CallFixHalfTree(Writer, <<0, 1>>, {0, 1})
RaceLookUp == CallLookUp(Reader1, <<0, 1>>)

NextRace ==
  \/ RaceFix
  \/ RaceLookUp
  \/ FixGet(Writer)
  \/ LockLoad(Writer)
  \/ LockStore(Writer)
  \/ StoreW0And(Writer)
  \/ StoreW0Or(Writer)
  \/ ReadVa1(Reader1)
  \/ ReadVb1(Reader1)
  \/ ReadAA(Reader1)
  \/ ReadBB(Reader1)
  \/ ReadVa2(Reader1)
  \/ ReadVb2(Reader1)

SpecRace == InitRace /\ [][NextRace]_vars

\* C19: a lookUp of a key with both slots listed returns what it returns before
\* the component fix-up, which is also what it returns after it (the delta is
\* applied to both slots and cancels), never the value with the delta applied
\* to one slot only
C19_ComponentFixIsAtomic ==
  Accepted(th[Reader1]) => th[Reader1].v = LookUpOf(hist.pre, <<0, 1>>)

----------------------------------------------------------------------------
(* SpecLookUps: one thread that only looks keys up, with and without        *)
(* control bits.  Lines 212-213 store through the addresses aa and bb; here *)
(* the outcome in which such a store lands inside the table is followed too *)

MaxLookUps == 2

LaneBits == 16
ByteBits == 8

LookUpsBuilds ==
  {[c EXCEPT !.maxops = MaxLookUps] : c \in {b \in SeqBuilds : b.L + b.CL <= 24}}

\* slot s holds value s + 1, control bits 0
Counting(c) ==
  [w \in 0 .. (MemWords(c) - 1) |->
     {b \in W : LET g == WordBits * w + b
                    s == g \div (c.L + c.CL)
                    j == g % (c.L + c.CL)
                IN s < c.ma + c.mb /\ j >= c.CL /\ (j - c.CL) \in BitsOf(s + 1)}]

InitLookUps ==
  \E c \in LookUpsBuilds :
    \E m \in {AllZero(c), AllOnes(c), Counting(c)} :
      Construct(c, m, [i \in LockIdx(c) |-> 0], {Writer})

\* the bytes of mem.data()
TableBytes == (WordBits \div ByteBits) * Cardinality(DOMAIN mem)

\* byte offsets at which a uint16_t lies wholly inside the table, for a pointer
\* of value p; mem.data() is aligned for uint64_t
LanesFor(p) ==
  {o \in 0 .. (TableBytes - 2) : o % (WordBits \div ByteBits) = p % (WordBits \div ByteBits)}

\* *(uint16_t *) (mem.data() + o) += 1, little-endian; nothing when the store
\* lies outside the table
LaneInc(m, o) ==
  IF o \notin 0 .. (TableBytes - 2) THEN m
  ELSE LET sum == BitsOf((NumOf(BitsAt(m, ByteBits * o, LaneBits)) + 1) % (2 ^ LaneBits))
       IN [w \in DOMAIN m |->
             {b \in W : LET g == WordBits * w + b - ByteBits * o
                        IN IF g \in LowBits(LaneBits) THEN g \in sum ELSE b \in m[w]}]

\* *(uint16_t *) aa += 1; *(uint16_t *) bb += 1; where the address aa or the
\* address bb lies in the table: oa and ob are the two addresses relative to
\* mem.data(), so ob - oa = bb - aa.  A null pointer, or a store that lies
\* partly in the table, is not followed here.  Then memSet(ha, aa) begins.
WildIncrementInTable(t) ==
  LET a == NumOf(th[t].aa)
      b == NumOf(th[t].bb)
      offsets == {<<o, o + b - a>> : o \in LanesFor(a)}
                   \cup {<<o - b + a, o>> : o \in LanesFor(b)}
  IN
  /\ ~fault
  /\ th[t].pc = "wild"
  /\ a # 0
  /\ b # 0
  /\ \E q \in offsets :
       /\ q[1] \notin {-1, TableBytes - 1}
       /\ q[2] \notin {-1, TableBytes - 1}
       /\ mem' = LaneInc(LaneInc(mem, q[1]), q[2])
  /\ th' = [th EXCEPT ![t].pc = "inc1_ld", ![t].kind = "S", ![t].stage = "A",
                      ![t].index = th[t].ha, ![t].value = th[t].aa]
  /\ UNCHANGED <<cfg, lock, fault, hist>>

LookUpsLookUp == \E k \in Keys : CallLookUp(Writer, k)

NextLookUps ==
  \/ LookUpsLookUp
  \/ ReadVa1(Writer)
  \/ ReadVb1(Writer)
  \/ ReadAA(Writer)
  \/ ReadBB(Writer)
  \/ ReadVa2(Writer)
  \/ ReadVb2(Writer)
  \/ WildIncrement(Writer)
  \/ WildIncrementInTable(Writer)
  \/ LockLoad(Writer)
  \/ LockStore(Writer)
  \/ StoreW0And(Writer)
  \/ StoreW0Or(Writer)
  \/ StoreW1And(Writer)
  \/ StoreW1Or(Writer)

SpecLookUps == InitLookUps /\ [][NextLookUps]_vars

\* C20: a lookUp made with no other call in between leaves the value sub-field
\* of every slot as it was; with CL = 0 it changes neither mem nor a version
\* counter, with CL > 0 it changes no bit outside slots aIdx and bIdx
C20_LookUpsKeepValues ==
  Returned("lookUp") =>
    /\ \A s \in Slots : ValueBits(mem, s) = ValueBits(hist.pre, s)
    /\ CL = 0 => (mem = hist.pre /\ lock = hist.prelock)
    /\ CL > 0 => \A s \in Slots \ {hist.call[2], hist.call[3]} :
                   SlotBits(mem, s) = SlotBits(hist.pre, s)

====
